---- MODULE Spec2Model ----
(***************************************************************************)
(* The real-time audio pipeline of the voice-chat client.                  *)
(*                                                                         *)
(*   Spec          the capture side: the AudioWorklet processor            *)
(*                 (nearest-neighbour and linear-interpolation variants),  *)
(*                 its start/stop lifecycle, and the main-thread           *)
(*                 downsampleBuffer helper applied to drawn inputs.        *)
(*   SpecPlayback  the playback scheduler: useVoiceClient (playAudio,      *)
(*                 stopAudioPlayback, onended) and the VoiceChat           *)
(*                 component (scheduleAudioChunk, toggleRecording), with   *)
(*                 the capture node's messages and the outbound sends.     *)
(*   SpecScriptProcessor                                                   *)
(*                 the hook's ScriptProcessor version, whose               *)
(*                 onaudioprocess decides barge-in and sends in one        *)
(*                 callback.                                               *)
(*   SpecVoiceChat the VoiceChat component alone, with weak fairness of    *)
(*                 the audio clock and of the turn_complete timeout.       *)
(*   SpecHook      the worklet hook under its page, with weak fairness of  *)
(*                 the audio clock, of onended and of the idle timeout.    *)
(*   SpecSession   the page's session: start, stop and the session timer.  *)
(*   SpecCodec     the sample conversions: base64ToFloat32 followed by     *)
(*                 convertFloat32ToInt16 on every 16-bit value, and the    *)
(*                 outbound byte/base64 encoding followed by its           *)
(*                 decoding.  A float32 is a record [neg, m, k] standing   *)
(*                 for +-m / 2^k, rounded as IEEE single precision.        *)
(*                                                                         *)
(* Numbers.  Sample rates are in kHz.  A position in the input frame       *)
(* ("residue") is a numerator over targetSampleRate, so that               *)
(* ratio = sampleRate / targetSampleRate is the integer sampleRate and     *)
(* all resampler arithmetic is exact (IEEE rounding is not modelled).      *)
(* An input sample is an amplitude in thousandths (1000 = 1.0); a          *)
(* resampled sample is a numerator over One = 1000 * targetSampleRate, so  *)
(* that the interpolation s0 + (s1 - s0) * decimal is exact too.           *)
(* Playback times are in milliseconds.                                     *)
(***************************************************************************)
EXTENDS Integers, Sequences, FiniteSets, TLC

\* ------------------------------------------------------------------ bounds
\* Samples per outbound chunk (512 in the source; scaled down).
chunkSize == 2
\* Longest frame handed to process() (browsers hand over 128 samples).
MaxFrameLen == 3
\* Input samples fed to one processor instance.
MaxInput == 4
\* Number of times capture is started.
MaxStarts == 2

\* --------------------------------------------------------------- constants
targetSampleRate == 16
vadThresholdNearest == 5
vadThresholdLinear == 1

\* Device rates (kHz): upsampling (8), identity (16), fractional ratios
\* (24 -> 1.5, 40 -> 2.5) and an integer ratio (48 -> 3).
DeviceRates == {8, 16, 24, 40, 48}
\* Input amplitudes in thousandths: out of range negative, threshold-level,
\* full scale.
Amplitudes == {-2000, 1, 1000}
AmpScale == 10 * 100
One == AmpScale * targetSampleRate

Frames == UNION {[1..n -> Amplitudes] : n \in 1..MaxFrameLen}
Variants == {"nearest", "linear"}

VARIABLES
    mode,          \* "nearest" | "linear": which worklet is loaded; "downsample": the helper
    sampleRate,    \* the AudioWorkletGlobalScope's sampleRate (kHz)
    workletNode,   \* workletNodeRef.current # null
    starts,        \* how many times capture was started
    proc,          \* the AudioProcessor instance's fields
    port,          \* messages the current processor posted, in order
    produced,      \* every resampled sample the current processor appended
    taken,         \* global input position (over targetSampleRate) of each of them
    stream,        \* all input samples the current processor consumed
    calls,         \* process() calls on the current processor
    dsCall,        \* downsampleBuffer's arguments
    dsResult       \* downsampleBuffer's outcome

captureVars == <<mode, sampleRate, workletNode, starts, proc, port, produced,
                 taken, stream, calls, dsCall, dsResult>>

\* The playback scheduler and the session around it.
VARIABLES
    component,          \* which client is mounted
    isActive,           \* the page's isActive (a session was started by the user)
    status,             \* connection status shown to the user
    speakingState,      \* useVoiceClient: 'idle' | 'listening' | 'speaking'
    isAIResponding,     \* isAIRespondingRef.current
    ws,                 \* wsRef / websocketRef: "null" or the socket's readyState
    orphans,            \* sockets closed by the client whose close event is pending
    audioContext,       \* audioContextRef.current: 0 = null, else the context's number
    contexts,           \* playback contexts created so far
    currentTime,        \* the live context's currentTime (ms)
    nextStartTime,      \* nextStartTimeRef.current (ms)
    activeSourceNodes,  \* activeSourceNodesRef.current: unit numbers, in push order
    units,              \* every source node scheduled so far, in order
    timers,             \* pending setTimeout callbacks
    pendingStart,       \* contexts of the startRecording() calls awaiting the microphone
    captureNode,        \* context of the installed capture node (0: none)
    lastCancel,         \* context of a stopAudioPlayback since the last enqueue (0: none)
    mediaStream,        \* mediaStreamRef.current holds a stream with live tracks
    sent                \* number of 'audio' frames passed to WebSocket.send

playbackVars == <<component, isActive, status, speakingState, isAIResponding, ws,
                  orphans, audioContext, contexts, currentTime, nextStartTime,
                  activeSourceNodes, units, timers, pendingStart, captureNode,
                  lastCancel, mediaStream, sent>>

\* The sample and wire conversions, applied to drawn arguments.
VARIABLES
    codecCall,          \* which conversion is applied, and its argument
    codecResult         \* its outcome

codecVars == <<codecCall, codecResult>>

\* The page around the hook.
VARIABLES
    timeLeft            \* seconds left of the session (the page's timeLeft)

pageVars == <<timeLeft>>

\* ------------------------------------------------------ the worklet processor
vadThreshold(variant) ==
    IF variant = "nearest" THEN vadThresholdNearest ELSE vadThresholdLinear

\* constructor()
NewProcessor ==
    [buffer |-> [i \in 1..chunkSize |-> 0],
     bufferIndex |-> 0,
     volumeSkipCounter |-> 0,
     residue |-> 0]

\* A processor together with what it has posted and the record of its reads.
NewRun ==
    [p |-> NewProcessor, posted |-> <<>>, produced |-> <<>>, taken |-> <<>>]

\* Int16Array element store of  s < 0 ? s * 0x8000 : s * 0x7FFF  after the
\* clamp to [-1, 1]; the typed array truncates toward zero.
FloatToInt16(s) ==
    LET c == IF s < -One THEN -One ELSE IF s > One THEN One ELSE s
    IN  IF c < 0 THEN -(((-c) * 32768) \div One) ELSE (c * 32767) \div One

\* flush(): convert the whole buffer, post it, reset the index.
flush(r) ==
    [r EXCEPT !.posted = Append(@, [type |-> "audio_data",
                                    data |-> [i \in 1..chunkSize |->
                                                 FloatToInt16(r.p.buffer[i])]]),
              !.p.bufferIndex = 0]

bufferWriteFlushFirst(r, v, pos) ==
    LET g == [r EXCEPT !.produced = Append(@, v), !.taken = Append(@, pos)]
    IN  IF r.p.bufferIndex + 1 >= chunkSize
        THEN flush(g)
        ELSE [g EXCEPT !.p.buffer[r.p.bufferIndex + 1] = v, !.p.bufferIndex = @ + 1]

\* this.buffer[this.bufferIndex++] = v; if (this.bufferIndex >= this.chunkSize) flush()
\* pos: the input position v was taken at (bookkeeping only).
bufferWrite(r, v, pos) ==
    LET w == [r EXCEPT !.p.buffer[r.p.bufferIndex + 1] = v,
                       !.p.bufferIndex = @ + 1,
                       !.produced = Append(@, v),
                       !.taken = Append(@, pos)]
    IN  IF w.p.bufferIndex >= chunkSize THEN flush(w) ELSE w

\* Variant of the energy sum that adds magnitudes instead of squares.
RECURSIVE SumMagnitudes(_, _)
SumMagnitudes(channelData, i) ==
    IF i > Len(channelData) THEN 0
    ELSE (IF channelData[i] < 0 THEN -channelData[i] ELSE channelData[i])
         + SumMagnitudes(channelData, i + 1)

RECURSIVE SumSquares(_, _)
SumSquares(channelData, i) ==
    IF i > Len(channelData) THEN 0
    ELSE channelData[i] * channelData[i] + SumSquares(channelData, i + 1)

\* Variant of the VAD comparison that also fires at the threshold.
VadActiveInclusive(channelData, variant) ==
    SumSquares(channelData, 1) >= vadThreshold(variant) * vadThreshold(variant) * Len(channelData)

\* rms > this.vadThreshold, with rms = sqrt(sum / length): both sides squared.
VadActive(channelData, variant) ==
    SumSquares(channelData, 1) > vadThreshold(variant) * vadThreshold(variant) * Len(channelData)

\* Steps 1 of process(): the VAD post and the throttled volume post.
vadAndVolume(r, channelData, variant) ==
    LET r1 == IF VadActive(channelData, variant)
              THEN [r EXCEPT !.posted = Append(@, [type |-> "vad_signal", data |-> <<>>])]
              ELSE r
        n  == r1.p.volumeSkipCounter + 1
    IN  IF n >= 3
        THEN [r1 EXCEPT !.posted = Append(@, [type |-> "volume",
                                              data |-> <<SumSquares(channelData, 1),
                                                         Len(channelData)>>]),
                        !.p.volumeSkipCounter = 0]
        ELSE [r1 EXCEPT !.p.volumeSkipCounter = n]

\* The ratio === 1 fast path of the nearest-neighbour worklet: copy every sample.
RECURSIVE fastPath(_, _, _, _)
fastPath(r, channelData, i, base) ==
    IF i >= Len(channelData) THEN r
    ELSE fastPath(bufferWrite(r, channelData[i + 1] * targetSampleRate,
                              (base + i) * targetSampleRate),
                  channelData, i + 1, base)

\* Variant of the loop whose linear interpolator produces no sample at a
\* position that has no following input sample.
RECURSIVE resampleLoopNeedsNext(_, _, _, _, _)
resampleLoopNeedsNext(r, channelData, ratio, variant, base) ==
    IF r.p.residue < Len(channelData) * targetSampleRate
    THEN LET i       == r.p.residue \div targetSampleRate
             decimal == r.p.residue % targetSampleRate
             s0      == channelData[i + 1]
             last    == ~(i + 1 < Len(channelData))
             s1      == IF last THEN s0 ELSE channelData[i + 2]
             result  == s0 * targetSampleRate + (s1 - s0) * decimal
             pos     == base * targetSampleRate + r.p.residue
             w       == IF variant = "linear"
                        THEN (IF last THEN r ELSE bufferWrite(r, result, pos))
                        ELSE bufferWrite(r, s0 * targetSampleRate, pos)
         IN  resampleLoopNeedsNext([w EXCEPT !.p.residue = @ + ratio],
                                   channelData, ratio, variant, base)
    ELSE r

\* while (this.residue < channelData.length) { ...; this.residue += ratio }
\* base: input samples consumed by earlier calls (bookkeeping only).
RECURSIVE resampleLoop(_, _, _, _, _)
resampleLoop(r, channelData, ratio, variant, base) ==
    IF r.p.residue < Len(channelData) * targetSampleRate
    THEN LET i       == r.p.residue \div targetSampleRate
             decimal == r.p.residue % targetSampleRate
             s0      == channelData[i + 1]
             last    == ~(i + 1 < Len(channelData))
             s1      == IF last THEN s0 ELSE channelData[i + 2]
             result  == s0 * targetSampleRate + (s1 - s0) * decimal
             pos     == base * targetSampleRate + r.p.residue
             w       == IF variant = "linear"
                        THEN bufferWrite(r, result, pos)
                        ELSE IF i < Len(channelData)
                        THEN bufferWrite(r, s0 * targetSampleRate, pos)
                        ELSE r
         IN  resampleLoop([w EXCEPT !.p.residue = @ + ratio],
                          channelData, ratio, variant, base)
    ELSE r

\* Variant of the carry step that forgets to subtract the frame length.
carryKept(r, channelData) == r

carryReset(r, channelData) == [r EXCEPT !.p.residue = 0]

\* this.residue -= channelData.length
carry(r, channelData) ==
    [r EXCEPT !.p.residue = @ - Len(channelData) * targetSampleRate]

\* process(inputs): r is the processor with its records, rate the global sampleRate.
process(r, channelData, rate, variant, base) ==
    LET r1 == vadAndVolume(r, channelData, variant)
    IN  IF variant = "nearest" /\ rate = targetSampleRate
        THEN fastPath(r1, channelData, 0, base)
        ELSE carry(resampleLoop(r1, channelData, rate, variant, base), channelData)

CurrentRun ==
    [p |-> proc, posted |-> port, produced |-> produced, taken |-> taken]

\* --------------------------------------------------------- downsampleBuffer
\* Variant of Math.round that rounds every fraction up.
RoundUp(num, den) == (num + den - 1) \div den

\* Math.round of the non-negative rational num / den.
Round(num, den) == (2 * num + den) \div (2 * den)

RECURSIVE SumRange(_, _, _)
SumRange(buffer, lo, hi) ==
    IF lo >= hi THEN 0 ELSE buffer[lo + 1] + SumRange(buffer, lo + 1, hi)

Min(a, b) == IF a < b THEN a ELSE b

\* The averaging loop: output k is accum / count over the window
\* [offsetBuffer, min(nextOffsetBuffer, length)); it is kept as the pair
\* <<accum, count>> (count = 0 is the NaN of 0 / 0).
RECURSIVE averageLoop(_, _, _, _, _, _)
averageLoop(buffer, rateIn, rateOut, newLength, offsetResult, offsetBuffer) ==
    IF offsetResult < newLength
    THEN LET nextOffsetBuffer == Round((offsetResult + 1) * rateIn, rateOut)
             hi == Min(nextOffsetBuffer, Len(buffer))
             count == IF hi > offsetBuffer THEN hi - offsetBuffer ELSE 0
         IN  <<[accum |-> SumRange(buffer, offsetBuffer, hi), count |-> count,
                from |-> offsetBuffer]>>
             \o averageLoop(buffer, rateIn, rateOut, newLength,
                            offsetResult + 1, nextOffsetBuffer)
    ELSE <<>>

downsampleBufferNoThrow(buffer, rateIn, rateOut) ==
    IF rateOut = rateIn
    THEN [called |-> TRUE, threw |-> FALSE, same |-> TRUE, value |-> buffer]
    ELSE [called |-> TRUE, threw |-> FALSE, same |-> FALSE,
          value |-> averageLoop(buffer, rateIn, rateOut,
                                Round(Len(buffer) * rateOut, rateIn), 0, 0)]

downsampleBufferNoFastPath(buffer, rateIn, rateOut) ==
    IF rateOut > rateIn
    THEN [called |-> TRUE, threw |-> TRUE, same |-> FALSE, value |-> <<>>]
    ELSE [called |-> TRUE, threw |-> FALSE, same |-> FALSE,
          value |-> averageLoop(buffer, rateIn, rateOut,
                                Round(Len(buffer) * rateOut, rateIn), 0, 0)]

\* downsampleBuffer(buffer, sampleRate, outSampleRate)
downsampleBuffer(buffer, rateIn, rateOut) ==
    IF rateOut = rateIn
    THEN [called |-> TRUE, threw |-> FALSE, same |-> TRUE, value |-> buffer]
    ELSE IF rateOut > rateIn
    THEN [called |-> TRUE, threw |-> TRUE, same |-> FALSE, value |-> <<>>]
    ELSE [called |-> TRUE, threw |-> FALSE, same |-> FALSE,
          value |-> averageLoop(buffer, rateIn, rateOut,
                                Round(Len(buffer) * rateOut, rateIn), 0, 0)]

Buffers == UNION {[1..n -> Amplitudes] : n \in 0..MaxFrameLen}
NoCall == [buffer |-> <<>>, sampleRate |-> 0, outSampleRate |-> 0]
NoResult == [called |-> FALSE, threw |-> FALSE, same |-> FALSE, value |-> <<>>]

\* ------------------------------------------------------------ capture: Init
CaptureInit ==
    /\ mode \in Variants \cup {"downsample"}
    /\ IF mode = "downsample"
       THEN /\ sampleRate = targetSampleRate
            /\ dsCall \in [buffer : Buffers, sampleRate : DeviceRates,
                           outSampleRate : DeviceRates]
       ELSE /\ sampleRate \in DeviceRates
            /\ dsCall = NoCall
    /\ dsResult = NoResult
    /\ workletNode = FALSE
    /\ starts = 0
    /\ proc = NewProcessor
    /\ port = <<>>
    /\ produced = <<>>
    /\ taken = <<>>
    /\ stream = <<>>
    /\ calls = 0

\* --------------------------------------------------------- capture: actions
\* Variant of the start that re-attaches the processor of the previous capture.
StartCaptureReusingProcessor ==
    /\ mode \in Variants
    /\ ~workletNode
    /\ starts < MaxStarts
    /\ workletNode' = TRUE
    /\ starts' = starts + 1
    /\ port' = <<>>
    /\ produced' = <<>>
    /\ taken' = <<>>
    /\ stream' = <<>>
    /\ calls' = 0
    /\ UNCHANGED <<mode, sampleRate, proc, dsCall, dsResult>>
    /\ UNCHANGED playbackVars
    /\ UNCHANGED codecVars
    /\ UNCHANGED pageVars

\* startRecording: new AudioWorkletNode(ctx, 'audio-processor') constructs a
\* fresh processor with a fresh port.
StartCapture ==
    /\ mode \in Variants
    /\ ~workletNode
    /\ starts < MaxStarts
    /\ workletNode' = TRUE
    /\ starts' = starts + 1
    /\ proc' = NewProcessor
    /\ port' = <<>>
    /\ produced' = <<>>
    /\ taken' = <<>>
    /\ stream' = <<>>
    /\ calls' = 0
    /\ UNCHANGED <<mode, sampleRate, dsCall, dsResult>>
    /\ UNCHANGED playbackVars
    /\ UNCHANGED codecVars
    /\ UNCHANGED pageVars

\* One render quantum: process(inputs) with a connected mono input.
Process(channelData) ==
    /\ mode \in Variants
    /\ workletNode
    /\ Len(stream) + Len(channelData) <= MaxInput
    /\ LET r == process(CurrentRun, channelData, sampleRate, mode, Len(stream))
       IN  /\ proc' = r.p
           /\ port' = r.posted
           /\ produced' = r.produced
           /\ taken' = r.taken
    /\ stream' = stream \o channelData
    /\ calls' = calls + 1
    /\ UNCHANGED <<mode, sampleRate, workletNode, starts, dsCall, dsResult>>
    /\ UNCHANGED playbackVars
    /\ UNCHANGED codecVars
    /\ UNCHANGED pageVars

\* process(inputs) on a node whose input is disconnected: inputs[0] is empty
\* and the call returns at once.
ProcessNoInput ==
    /\ mode \in Variants
    /\ ~workletNode
    /\ starts > 0
    /\ UNCHANGED captureVars
    /\ UNCHANGED playbackVars
    /\ UNCHANGED codecVars
    /\ UNCHANGED pageVars

StopCaptureFlushing ==
    /\ mode \in Variants
    /\ workletNode
    /\ workletNode' = FALSE
    /\ port' = IF proc.bufferIndex > 0
               THEN Append(port, [type |-> "audio_data",
                                  data |-> [i \in 1..proc.bufferIndex |->
                                               FloatToInt16(proc.buffer[i])]])
               ELSE port
    /\ UNCHANGED <<mode, sampleRate, starts, proc, produced, taken,
                   stream, calls, dsCall, dsResult>>
    /\ UNCHANGED playbackVars
    /\ UNCHANGED codecVars
    /\ UNCHANGED pageVars

\* stopRecording: the node is disconnected and dropped; nothing is flushed.
StopCapture ==
    /\ mode \in Variants
    /\ workletNode
    /\ workletNode' = FALSE
    /\ UNCHANGED <<mode, sampleRate, starts, proc, port, produced, taken,
                   stream, calls, dsCall, dsResult>>
    /\ UNCHANGED playbackVars
    /\ UNCHANGED codecVars
    /\ UNCHANGED pageVars

\* The helper applied to the drawn arguments.
CallDownsample ==
    /\ mode = "downsample"
    /\ ~dsResult.called
    /\ dsResult' = downsampleBuffer(dsCall.buffer, dsCall.sampleRate,
                                    dsCall.outSampleRate)
    /\ UNCHANGED <<mode, sampleRate, workletNode, starts, proc, port, produced,
                   taken, stream, calls, dsCall>>
    /\ UNCHANGED playbackVars
    /\ UNCHANGED codecVars
    /\ UNCHANGED pageVars

\* ====================================================== sample conversions
\* Longest sample sequence put through the wire codec.
MaxSamples == 3

Int16Min == -32768
Int16Max == 32767
Int16 == Int16Min..Int16Max

RECURSIVE Pow2(_)
Pow2(n) == IF n = 0 THEN 1 ELSE 2 * Pow2(n - 1)

\* A float32 value is kept exactly, as  (-1)^neg * m / 2^k  with m < 2^24.
\* Float32Array element store of the quotient x / d for 0 < x <= d < 2^15:
\* the 24-bit significand is found by long division and rounded to nearest
\* (a tie cannot occur for odd d unless the quotient is exact).  The quotient
\* is first rounded to a double; it lies more than 2^-40 (relative) from
\* every float32 rounding boundary, so that first rounding does not change
\* the result.
RECURSIVE Float32Quotient(_, _, _, _)
Float32Quotient(q, r, k, d) ==
    IF q < Pow2(23)
    THEN Float32Quotient(2 * q + (2 * r) \div d, (2 * r) % d, k + 1, d)
    ELSE LET up == 2 * r > d
             m  == IF up THEN q + 1 ELSE q
         IN  IF m = Pow2(24) THEN [neg |-> FALSE, m |-> Pow2(23), k |-> k - 1]
                             ELSE [neg |-> FALSE, m |-> m, k |-> k]

\* base64ToFloat32's mapping of one sample:
\*   float32Array[i] = int16 < 0 ? int16 / 0x8000 : int16 / 0x7FFF
Int16ToFloat32(x) ==
    IF x < 0 THEN [neg |-> TRUE, m |-> -x, k |-> 15]
    ELSE IF x = 0 THEN [neg |-> FALSE, m |-> 0, k |-> 0]
    ELSE Float32Quotient(x \div Int16Max, x % Int16Max, 0, Int16Max)

\* floor(m * c / 2^k) for m < 2^24, c <= 2^15, k >= 12, in 32-bit steps.
ScaleAndTruncate(m, c, k) ==
    ((m \div 4096) * c + ((m % 4096) * c) \div 4096) \div Pow2(k - 12)

\* convertFloat32ToInt16 on one float32 sample f (|f| <= 1 here, so the clamp
\* keeps it):  buf[l] = s < 0 ? s * 0x8000 : s * 0x7FFF.  The product is exact
\* in a double and the Int16Array store truncates it toward zero.
convertFloat32ToInt16(f) ==
    IF f.m = 0 THEN 0
    ELSE IF f.neg THEN -ScaleAndTruncate(f.m, Int16Max + 1, f.k)
    ELSE ScaleAndTruncate(f.m, Int16Max, f.k)

\* ------------------------------------------------------------- wire codec
\* new Uint8Array(int16Data.buffer): two bytes per sample, low byte first.
RECURSIVE Int16ToBytes(_)
Int16ToBytes(samples) ==
    IF samples = <<>> THEN <<>>
    ELSE LET u == (Head(samples) + 65536) % 65536
         IN  <<u % 256, u \div 256>> \o Int16ToBytes(Tail(samples))

\* new Int16Array(bytes.buffer)
RECURSIVE BytesToInt16(_)
BytesToInt16(bytes) ==
    IF Len(bytes) < 2 THEN <<>>
    ELSE LET u == bytes[2] * 256 + bytes[1]
         IN  <<IF u >= 32768 THEN u - 65536 ELSE u>>
             \o BytesToInt16(SubSeq(bytes, 3, Len(bytes)))

\* '=' in a base64 text; the other characters are written as their value 0..63.
Pad == 64

\* Variant of btoa that leaves out a final group of fewer than three bytes.
RECURSIVE btoaWholeGroups(_)
btoaWholeGroups(bytes) ==
    IF Len(bytes) < 3 THEN <<>>
    ELSE <<bytes[1] \div 4, (bytes[1] % 4) * 16 + bytes[2] \div 16,
           (bytes[2] % 16) * 4 + bytes[3] \div 64, bytes[3] % 64>>
         \o btoaWholeGroups(SubSeq(bytes, 4, Len(bytes)))

\* window.btoa of the binary string built with String.fromCharCode(bytes[i]).
RECURSIVE btoa(_)
btoa(bytes) ==
    IF bytes = <<>> THEN <<>>
    ELSE IF Len(bytes) = 1
    THEN <<bytes[1] \div 4, (bytes[1] % 4) * 16, Pad, Pad>>
    ELSE IF Len(bytes) = 2
    THEN <<bytes[1] \div 4, (bytes[1] % 4) * 16 + bytes[2] \div 16,
           (bytes[2] % 16) * 4, Pad>>
    ELSE <<bytes[1] \div 4, (bytes[1] % 4) * 16 + bytes[2] \div 16,
           (bytes[2] % 16) * 4 + bytes[3] \div 64, bytes[3] % 64>>
         \o btoa(SubSeq(bytes, 4, Len(bytes)))

\* window.atob followed by charCodeAt(i) of every character.
RECURSIVE atob(_)
atob(text) ==
    IF Len(text) < 4 THEN <<>>
    ELSE (IF text[3] = Pad
          THEN <<text[1] * 4 + text[2] \div 16>>
          ELSE IF text[4] = Pad
          THEN <<text[1] * 4 + text[2] \div 16,
                 (text[2] % 16) * 16 + text[3] \div 4>>
          ELSE <<text[1] * 4 + text[2] \div 16,
                 (text[2] % 16) * 16 + text[3] \div 4,
                 (text[3] % 4) * 64 + text[4]>>)
         \o atob(SubSeq(text, 5, Len(text)))

\* Samples whose bytes cover 0x00, 0x7F, 0x80 and 0xFF.
WireSamples == {Int16Min, -1, 0, 255, 256, Int16Max}
SampleSeqs == UNION {[1..n -> WireSamples] : n \in 0..MaxSamples}

NoCodecCall == [kind |-> "none"]
NoCodecResult == [called |-> FALSE]

CodecIdle ==
    /\ codecCall = NoCodecCall
    /\ codecResult = NoCodecResult

\* Playback decodes a sample and the capture helper converts it back.
CallSampleRoundTrip ==
    /\ codecCall.kind = "sample"
    /\ ~codecResult.called
    /\ codecResult' = [called |-> TRUE,
                       float  |-> Int16ToFloat32(codecCall.x),
                       value  |-> convertFloat32ToInt16(Int16ToFloat32(codecCall.x))]
    /\ UNCHANGED codecCall
    /\ UNCHANGED captureVars
    /\ UNCHANGED playbackVars
    /\ UNCHANGED pageVars

\* The send path's encoding of a chunk followed by the receive path's decoding.
CallWireRoundTrip ==
    /\ codecCall.kind = "wire"
    /\ ~codecResult.called
    /\ LET bytes == Int16ToBytes(codecCall.samples)
           text  == btoa(bytes)
       IN  codecResult' = [called  |-> TRUE,
                           sent    |-> bytes,
                           text    |-> text,
                           bytes   |-> atob(text),
                           samples |-> BytesToInt16(atob(text))]
    /\ UNCHANGED codecCall
    /\ UNCHANGED captureVars
    /\ UNCHANGED playbackVars
    /\ UNCHANGED pageVars

\* ======================================================== playback scheduler
\* Enqueues (playAudio / scheduleAudioChunk calls that schedule a unit).
MaxUnits == 2
\* Clock ticks a playback context may advance.
MaxTicks == 2
\* AudioContexts created for playback.
MaxContexts == 2
\* Pending turn_complete timeouts of VoiceChat.
MaxTimers == 1
\* Capture chunks passed to WebSocket.send.
MaxSent == 1
\* Seconds of a session (30 * 60 in the source; scaled down).
SESSION_DURATION == 3

RECEIVE_SAMPLE_RATE == 22000
\* Lookahead of scheduleAudioChunk (0.05 s), in ms.
lookahead == 50
\* "Buffer nearing empty" threshold of onended (0.1 s), in ms.
nearingEmpty == 100

\* The clock is observed every 100 ms.
ClockSteps == {100}
ClockStep == CHOOSE d \in ClockSteps : TRUE
\* Decoded lengths of inbound audio payloads: 100 ms and 200 ms at 22 kHz.
SampleCounts == {2200, 4400}
\* How a startRecording() call ends: the node is installed; getUserMedia
\* rejects; or the stream is acquired and a later step throws (source, module
\* or node creation).
StartOutcomes == {"ok", "denied", "nodeFailed"}
Components == {"useVoiceClient", "VoiceChat"}

\* buffer.duration = length / sampleRate, in ms
duration(samples) == (samples * 1000) \div RECEIVE_SAMPLE_RATE

\* new AudioContext(): a fresh clock.
NewContext ==
    /\ audioContext' = contexts + 1
    /\ contexts' = contexts + 1
    /\ currentTime' = 0

\* Inbound payloads: a decodable one of n samples, or one the decoder or
\* createBuffer rejects (not base64, empty).
Payloads == [ok : {TRUE}, samples : SampleCounts] \cup {[ok |-> FALSE, samples |-> 0]}

\* ------------------------------------------------------------ useVoiceClient
playAudioAlwaysNow(payload) ==
    /\ nextStartTime' = currentTime + duration(payload.samples)
    /\ units' = Append(units, [ctx |-> audioContext, start |-> currentTime,
                               duration |-> duration(payload.samples),
                               stopped |-> FALSE, ended |-> FALSE])
    /\ activeSourceNodes' = Append(activeSourceNodes, Len(units) + 1)
    /\ lastCancel' = 0

\* playAudio(base64Data), with a context and a decodable payload.
playAudio(payload) ==
    LET startAt == IF nextStartTime < currentTime THEN currentTime ELSE nextStartTime
    IN  /\ nextStartTime' = startAt + duration(payload.samples)
        /\ units' = Append(units, [ctx |-> audioContext, start |-> startAt,
                                   duration |-> duration(payload.samples),
                                   stopped |-> FALSE, ended |-> FALSE])
        /\ activeSourceNodes' = Append(activeSourceNodes, Len(units) + 1)
        /\ lastCancel' = 0

\* Variant of stopAudioPlayback that stops only the oldest active node.
stopAudioPlaybackOldestOnly ==
    /\ units' = [k \in 1..Len(units) |->
                    IF activeSourceNodes # <<>> /\ activeSourceNodes[1] = k
                    THEN [units[k] EXCEPT !.stopped = TRUE] ELSE units[k]]
    /\ activeSourceNodes' = <<>>
    /\ nextStartTime' = IF audioContext # 0 THEN currentTime ELSE nextStartTime
    /\ isAIResponding' = FALSE
    /\ speakingState' = IF speakingState = "speaking" THEN "listening" ELSE speakingState
    /\ lastCancel' = audioContext

\* stopAudioPlayback()
stopAudioPlayback ==
    /\ units' = [k \in 1..Len(units) |->
                    IF \E j \in 1..Len(activeSourceNodes) : activeSourceNodes[j] = k
                    THEN [units[k] EXCEPT !.stopped = TRUE] ELSE units[k]]
    /\ activeSourceNodes' = <<>>
    /\ nextStartTime' = IF audioContext # 0 THEN currentTime ELSE nextStartTime
    /\ isAIResponding' = FALSE
    /\ speakingState' = IF speakingState = "speaking" THEN "listening" ELSE speakingState
    /\ lastCancel' = audioContext

\* The hook, in its worklet version or in its ScriptProcessor version.
Hooks == {"useVoiceClient", "useVoiceClientScriptProcessor"}
UVC == component \in Hooks
WorkletHook == component = "useVoiceClient"
ScriptProcessorHook == component = "useVoiceClientScriptProcessor"

\* initAudioSession(): create the context if there is none.
initAudioSession ==
    IF audioContext = 0
    THEN NewContext
    ELSE UNCHANGED <<audioContext, contexts, currentTime>>

\* connect()
connect ==
    IF ws = "OPEN"
    THEN UNCHANGED <<ws, status>>
    ELSE ws' = "CONNECTING" /\ status' = "connecting"

\* The page's handleStart: initAudioSession(), setIsActive(true), connect().
HandleStart ==
    /\ UVC
    /\ ~isActive
    /\ audioContext = 0 => contexts < MaxContexts
    /\ initAudioSession
    /\ isActive' = TRUE
    /\ connect
    /\ UNCHANGED <<component, mediaStream, sent,
                   speakingState, isAIResponding, orphans, nextStartTime,
                   activeSourceNodes, units, timers, pendingStart, captureNode,
                   lastCancel>>
    /\ UNCHANGED captureVars
    /\ UNCHANGED codecVars
    /\ UNCHANGED pageVars

\* The page's handleStop (button or session timer): setIsActive(false),
\* stopRecording(), disconnect().  disconnect() stops recording, closes the
\* socket and the context, and leaves nextStartTime and the active list alone.
\* setTimeLeft(SESSION_DURATION) ends it.
HandleStop ==
    /\ UVC
    /\ isActive
    /\ isActive' = FALSE
    /\ captureNode' = 0
    /\ mediaStream' = FALSE
    /\ speakingState' = "idle"
    /\ ws' = "null"
    /\ orphans' = IF ws \in {"CONNECTING", "OPEN", "CLOSING"}
                  THEN orphans + 1 ELSE orphans
    /\ audioContext' = 0
    /\ currentTime' = 0
    /\ status' = "disconnected"
    /\ isAIResponding' = FALSE
    /\ UNCHANGED <<component, sent,
                   contexts, nextStartTime, activeSourceNodes, units,
                   timers, pendingStart, lastCancel>>
    /\ UNCHANGED captureVars
    /\ UNCHANGED codecVars
    /\ timeLeft' = SESSION_DURATION

\* Variant of the interval callback that counts whatever the page's state.
SessionTickUnguarded ==
    /\ UVC
    /\ timeLeft >= 0
    /\ timeLeft' = timeLeft - 1
    /\ UNCHANGED playbackVars
    /\ UNCHANGED captureVars
    /\ UNCHANGED codecVars

\* The timer effect's interval callback: setTimeLeft(prev => prev - 1).  The
\* effect creates the interval only while isActive && timeLeft > 0, and the
\* render that follows the update clears it and runs the effect again.
SessionTick ==
    /\ UVC
    /\ isActive
    /\ timeLeft > 0
    /\ timeLeft' = timeLeft - 1
    /\ UNCHANGED playbackVars
    /\ UNCHANGED captureVars
    /\ UNCHANGED codecVars

\* The timer effect after a render with timeLeft === 0: handleStop().
SessionExpired ==
    /\ timeLeft = 0
    /\ HandleStop

\* ws.onopen; the page's effect then sees status 'connected' with isActive
\* and calls startRecording(), which waits for the microphone.
WsOpen ==
    /\ UVC
    /\ ws = "CONNECTING"
    /\ ws' = "OPEN"
    /\ status' = "connected"
    /\ pendingStart' = IF isActive /\ audioContext # 0
                       THEN pendingStart \cup {audioContext} ELSE pendingStart
    /\ UNCHANGED <<component, mediaStream, sent,
                   isActive, speakingState, isAIResponding, orphans,
                   audioContext, contexts, currentTime, nextStartTime,
                   activeSourceNodes, units, timers, captureNode, lastCancel>>
    /\ UNCHANGED captureVars
    /\ UNCHANGED codecVars
    /\ UNCHANGED pageVars

\* ws.onerror
WsError ==
    /\ UVC
    /\ ws \in {"CONNECTING", "OPEN", "CLOSING"}
    /\ status' = "error"
    /\ UNCHANGED <<component, mediaStream, sent,
                   isActive, speakingState, isAIResponding, ws, orphans,
                   audioContext, contexts, currentTime, nextStartTime,
                   activeSourceNodes, units, timers, pendingStart, captureNode,
                   lastCancel>>
    /\ UNCHANGED captureVars
    /\ UNCHANGED codecVars
    /\ UNCHANGED pageVars

\* The server starts the closing handshake: readyState becomes CLOSING, and
\* the close event follows later.  No handler of the hook runs.
WsClosing ==
    /\ UVC
    /\ ws = "OPEN"
    /\ ws' = "CLOSING"
    /\ UNCHANGED <<component, mediaStream, sent,
                   isActive, status, speakingState, isAIResponding, orphans,
                   audioContext, contexts, currentTime, nextStartTime,
                   activeSourceNodes, units, timers, pendingStart, captureNode,
                   lastCancel>>
    /\ UNCHANGED captureVars
    /\ UNCHANGED codecVars
    /\ UNCHANGED pageVars

\* ws.onclose, of the socket wsRef holds or of one disconnect() closed earlier.
WsClose ==
    /\ UVC
    /\ \/ /\ ws \in {"CONNECTING", "OPEN", "CLOSING"}
          /\ ws' = "CLOSED"
          /\ UNCHANGED orphans
       \/ /\ orphans > 0
          /\ orphans' = orphans - 1
          /\ UNCHANGED ws
    /\ status' = "disconnected"
    /\ speakingState' = "idle"
    /\ isAIResponding' = FALSE
    /\ UNCHANGED <<component, mediaStream, sent,
                   isActive, audioContext, contexts, currentTime,
                   nextStartTime, activeSourceNodes, units, timers, pendingStart,
                   captureNode, lastCancel>>
    /\ UNCHANGED captureVars
    /\ UNCHANGED codecVars
    /\ UNCHANGED pageVars

\* ws.onmessage, data.type === 'audio'.  playAudio returns at once without a
\* context; a payload that fails to decode throws before anything is scheduled.
WsAudio(payload) ==
    /\ UVC
    /\ ws = "OPEN"
    /\ Len(units) < MaxUnits
    /\ isAIResponding' = TRUE
    /\ speakingState' = "speaking"
    /\ IF audioContext # 0 /\ payload.ok
       THEN playAudio(payload)
       ELSE UNCHANGED <<nextStartTime, units, activeSourceNodes, lastCancel>>
    /\ UNCHANGED <<component, mediaStream, sent,
                   isActive, status, ws, orphans, audioContext, contexts,
                   currentTime, timers, pendingStart, captureNode>>
    /\ UNCHANGED captureVars
    /\ UNCHANGED codecVars
    /\ UNCHANGED pageVars

\* Variant of the message handler that routes turn_complete to the audio path.
WsTurnCompleteAsAudio == WsAudio([ok |-> TRUE, samples |-> 2200])

\* ws.onmessage, data.type === 'turn_complete'
WsTurnComplete ==
    /\ UVC
    /\ ws = "OPEN"
    /\ speakingState' = IF ~isAIResponding THEN "idle" ELSE speakingState
    /\ UNCHANGED <<component, mediaStream, sent,
                   isActive, status, isAIResponding, ws, orphans,
                   audioContext, contexts, currentTime, nextStartTime,
                   activeSourceNodes, units, timers, pendingStart, captureNode,
                   lastCancel>>
    /\ UNCHANGED captureVars
    /\ UNCHANGED codecVars
    /\ UNCHANGED pageVars

\* ws.onmessage of any other type (session_started, transcription, unknown):
\* nothing the pipeline holds changes.
WsOther ==
    /\ UVC
    /\ ws = "OPEN"
    /\ UNCHANGED playbackVars
    /\ UNCHANGED captureVars
    /\ UNCHANGED codecVars
    /\ UNCHANGED pageVars

\* startRecording() resumes after its awaits, on the context it captured:
\* the microphone was granted and the worklet node is installed, or an await
\* rejected and nothing is installed.
MicSettled(ctx, outcome) ==
    /\ UVC
    /\ ctx \in pendingStart
    /\ pendingStart' = pendingStart \ {ctx}
    /\ mediaStream' = IF outcome = "denied" THEN mediaStream ELSE TRUE
    /\ IF outcome = "ok"
       THEN captureNode' = ctx /\ speakingState' = "listening"
       ELSE UNCHANGED <<captureNode, speakingState>>
    /\ UNCHANGED <<component, sent,
                   isActive, status, isAIResponding, ws, orphans,
                   audioContext, contexts, currentTime, nextStartTime,
                   activeSourceNodes, units, timers, lastCancel>>
    /\ UNCHANGED captureVars
    /\ UNCHANGED codecVars
    /\ UNCHANGED pageVars

\* Variant of the audio_data handler that sends without looking at the socket.
PortAudioDataUngated ==
    /\ WorkletHook
    /\ captureNode # 0
    /\ captureNode = audioContext
    /\ sent < MaxSent
    /\ sent' = sent + 1
    /\ UNCHANGED <<component, mediaStream, isActive, status, speakingState,
                   isAIResponding, ws, orphans, audioContext, contexts,
                   currentTime, nextStartTime, activeSourceNodes, units, timers,
                   pendingStart, captureNode, lastCancel>>
    /\ UNCHANGED captureVars
    /\ UNCHANGED codecVars
    /\ UNCHANGED pageVars

\* workletNode.port.onmessage, type === 'audio_data': the chunk is encoded and
\* sent when the current socket is OPEN, otherwise the handler returns.
PortAudioData ==
    /\ WorkletHook
    /\ captureNode # 0
    /\ captureNode = audioContext
    /\ ws = "OPEN" => sent < MaxSent
    /\ sent' = IF ws = "OPEN" THEN sent + 1 ELSE sent
    /\ UNCHANGED <<component, mediaStream, isActive, status, speakingState,
                   isAIResponding, ws, orphans, audioContext, contexts,
                   currentTime, nextStartTime, activeSourceNodes, units, timers,
                   pendingStart, captureNode, lastCancel>>
    /\ UNCHANGED captureVars
    /\ UNCHANGED codecVars
    /\ UNCHANGED pageVars

\* Variant of the vad_signal handler without the isAIResponding gate.
VadSignalUngated ==
    /\ WorkletHook
    /\ captureNode # 0
    /\ captureNode = audioContext
    /\ stopAudioPlayback
    /\ UNCHANGED <<component, mediaStream, sent,
                   isActive, status, ws, orphans, audioContext, contexts,
                   currentTime, timers, pendingStart, captureNode>>
    /\ UNCHANGED captureVars
    /\ UNCHANGED codecVars
    /\ UNCHANGED pageVars

\* workletNode.port.onmessage, type === 'vad_signal' (only a node on a running
\* context posts).
VadSignal ==
    /\ WorkletHook
    /\ captureNode # 0
    /\ captureNode = audioContext
    /\ IF isAIResponding
       THEN stopAudioPlayback
       ELSE UNCHANGED <<units, activeSourceNodes, nextStartTime, isAIResponding,
                        speakingState, lastCancel>>
    /\ UNCHANGED <<component, mediaStream, sent,
                   isActive, status, ws, orphans, audioContext, contexts,
                   currentTime, timers, pendingStart, captureNode>>
    /\ UNCHANGED captureVars
    /\ UNCHANGED codecVars
    /\ UNCHANGED pageVars

\* processor.onaudioprocess of the ScriptProcessor version: nothing happens
\* unless the socket is OPEN; otherwise barge-in is decided on the raw frame
\* (active: rms > VAD_THRESHOLD) and then the frame is converted and sent.
OnAudioProcess(active) ==
    /\ ScriptProcessorHook
    /\ captureNode # 0
    /\ captureNode = audioContext
    /\ ws = "OPEN" => sent < MaxSent
    /\ IF ws # "OPEN"
       THEN UNCHANGED <<units, activeSourceNodes, nextStartTime, isAIResponding,
                        speakingState, lastCancel, sent>>
       ELSE /\ IF isAIResponding /\ active
               THEN stopAudioPlayback
               ELSE UNCHANGED <<units, activeSourceNodes, nextStartTime,
                                isAIResponding, speakingState, lastCancel>>
            /\ sent' = sent + 1
    /\ UNCHANGED <<component, mediaStream, isActive, status, ws, orphans,
                   audioContext, contexts, currentTime, timers, pendingStart,
                   captureNode>>
    /\ UNCHANGED captureVars
    /\ UNCHANGED codecVars
    /\ UNCHANGED pageVars

\* source.onended of unit k: it played out or was stopped, on a context that
\* is still open.
SourceEnded(k) ==
    /\ UVC
    /\ units[k].ctx = audioContext
    /\ ~units[k].ended
    /\ units[k].stopped \/ currentTime >= units[k].start + units[k].duration
    /\ units' = [units EXCEPT ![k].ended = TRUE]
    /\ activeSourceNodes' = SelectSeq(activeSourceNodes, LAMBDA j : j # k)
    /\ IF nextStartTime - currentTime <= nearingEmpty
       THEN /\ isAIResponding' = FALSE
            /\ timers' = timers + 1
       ELSE UNCHANGED <<isAIResponding, timers>>
    /\ UNCHANGED <<component, mediaStream, sent,
                   isActive, status, speakingState, ws, orphans,
                   audioContext, contexts, currentTime, nextStartTime, pendingStart,
                   captureNode, lastCancel>>
    /\ UNCHANGED captureVars
    /\ UNCHANGED codecVars
    /\ UNCHANGED pageVars

\* The 100 ms timeout armed by onended.
TimerFire ==
    /\ UVC
    /\ timers > 0
    /\ timers' = timers - 1
    /\ speakingState' = IF speakingState = "speaking" THEN "idle" ELSE speakingState
    /\ UNCHANGED <<component, mediaStream, sent,
                   isActive, status, isAIResponding, ws, orphans,
                   audioContext, contexts, currentTime, nextStartTime,
                   activeSourceNodes, units, pendingStart, captureNode, lastCancel>>
    /\ UNCHANGED captureVars
    /\ UNCHANGED codecVars
    /\ UNCHANGED pageVars

\* The audio hardware advances the live context's clock.
Tick ==
    /\ audioContext # 0
    /\ currentTime < MaxTicks * ClockStep
    /\ currentTime' = currentTime + ClockStep
    /\ UNCHANGED <<component, mediaStream, sent,
                   isActive, status, speakingState, isAIResponding, ws,
                   orphans, audioContext, contexts, nextStartTime, activeSourceNodes,
                   units, timers, pendingStart, captureNode, lastCancel>>
    /\ UNCHANGED captureVars
    /\ UNCHANGED codecVars
    /\ UNCHANGED pageVars

\* ---------------------------------------------------------------- VoiceChat
VC == component = "VoiceChat"

\* getAudioContext(): created on first use, never closed.
getAudioContext ==
    IF audioContext = 0
    THEN NewContext
    ELSE UNCHANGED <<audioContext, contexts, currentTime>>

\* The clock value a handler reads (a context created in the call starts at 0).
Now == IF audioContext = 0 THEN 0 ELSE currentTime

\* Variant of scheduleAudioChunk that never resets a stale nextStartTime.
scheduleAudioChunkNoReset(payload) ==
    /\ nextStartTime' = nextStartTime + duration(payload.samples)
    /\ units' = Append(units, [ctx |-> audioContext', start |-> nextStartTime,
                               duration |-> duration(payload.samples),
                               stopped |-> FALSE, ended |-> FALSE])
    /\ status' = "speaking"
    /\ lastCancel' = 0

\* scheduleAudioChunk(base64Data), with a decodable payload.
scheduleAudioChunk(payload) ==
    LET startAt == IF nextStartTime < Now THEN Now + lookahead ELSE nextStartTime
    IN  /\ nextStartTime' = startAt + duration(payload.samples)
        /\ units' = Append(units, [ctx |-> audioContext', start |-> startAt,
                                   duration |-> duration(payload.samples),
                                   stopped |-> FALSE, ended |-> FALSE])
        /\ status' = "speaking"
        /\ lastCancel' = 0

\* connect(), from the mount effect or from toggleRecording while disconnected
VcConnect ==
    /\ VC
    /\ status = "disconnected"
    /\ IF ws # "null"
       THEN UNCHANGED <<ws, status>>
       ELSE ws' = "CONNECTING" /\ status' = "connecting"
    /\ UNCHANGED <<component, mediaStream, sent,
                   isActive, speakingState, isAIResponding, orphans,
                   audioContext, contexts, currentTime, nextStartTime,
                   activeSourceNodes, units, timers, pendingStart, captureNode,
                   lastCancel>>
    /\ UNCHANGED captureVars
    /\ UNCHANGED codecVars
    /\ UNCHANGED pageVars

\* ws.onopen: start_session is sent, the status is left alone.
VcWsOpen ==
    /\ VC
    /\ ws = "CONNECTING"
    /\ ws' = "OPEN"
    /\ UNCHANGED <<component, mediaStream, sent,
                   isActive, status, speakingState, isAIResponding,
                   orphans, audioContext, contexts, currentTime, nextStartTime,
                   activeSourceNodes, units, timers, pendingStart, captureNode,
                   lastCancel>>
    /\ UNCHANGED captureVars
    /\ UNCHANGED codecVars
    /\ UNCHANGED pageVars

\* ws.onerror
VcWsError ==
    /\ VC
    /\ ws \in {"CONNECTING", "OPEN"}
    /\ status' = "disconnected"
    /\ UNCHANGED <<component, mediaStream, sent,
                   isActive, speakingState, isAIResponding, ws, orphans,
                   audioContext, contexts, currentTime, nextStartTime,
                   activeSourceNodes, units, timers, pendingStart, captureNode,
                   lastCancel>>
    /\ UNCHANGED captureVars
    /\ UNCHANGED codecVars
    /\ UNCHANGED pageVars

\* ws.onclose
VcWsClose ==
    /\ VC
    /\ ws \in {"CONNECTING", "OPEN"}
    /\ ws' = "null"
    /\ status' = "disconnected"
    /\ UNCHANGED <<component, mediaStream, sent,
                   isActive, speakingState, isAIResponding, orphans,
                   audioContext, contexts, currentTime, nextStartTime,
                   activeSourceNodes, units, timers, pendingStart, captureNode,
                   lastCancel>>
    /\ UNCHANGED captureVars
    /\ UNCHANGED codecVars
    /\ UNCHANGED pageVars

\* handleWebSocketMessage, data.type === "audio" with data: the context is
\* obtained first, so a payload that fails to decode still creates it.
VcAudio(payload) ==
    /\ VC
    /\ ws = "OPEN"
    /\ Len(units) < MaxUnits
    /\ audioContext = 0 => contexts < MaxContexts
    /\ getAudioContext
    /\ IF payload.ok
       THEN scheduleAudioChunk(payload)
       ELSE UNCHANGED <<nextStartTime, units, status, lastCancel>>
    /\ UNCHANGED <<component, mediaStream, sent,
                   isActive, speakingState, isAIResponding, ws, orphans,
                   activeSourceNodes, timers, pendingStart, captureNode>>
    /\ UNCHANGED captureVars
    /\ UNCHANGED codecVars
    /\ UNCHANGED pageVars

\* handleWebSocketMessage, data.type === "turn_complete": arm the 1 s timeout.
VcTurnComplete ==
    /\ VC
    /\ ws = "OPEN"
    /\ timers < MaxTimers
    /\ timers' = timers + 1
    /\ UNCHANGED <<component, mediaStream, sent,
                   isActive, status, speakingState, isAIResponding, ws,
                   orphans, audioContext, contexts, currentTime, nextStartTime,
                   activeSourceNodes, units, pendingStart, captureNode, lastCancel>>
    /\ UNCHANGED captureVars
    /\ UNCHANGED codecVars
    /\ UNCHANGED pageVars

\* The timeout armed by turn_complete.
VcTimerFire ==
    /\ VC
    /\ timers > 0
    /\ timers' = timers - 1
    /\ status' = IF audioContext # 0 /\ currentTime >= nextStartTime
                 THEN "connected" ELSE status
    /\ UNCHANGED <<component, mediaStream, sent,
                   isActive, speakingState, isAIResponding, ws, orphans,
                   audioContext, contexts, currentTime, nextStartTime,
                   activeSourceNodes, units, pendingStart, captureNode, lastCancel>>
    /\ UNCHANGED captureVars
    /\ UNCHANGED codecVars
    /\ UNCHANGED pageVars

\* handleWebSocketMessage, data.type "welcome" or "session_started".
VcSessionStarted ==
    /\ VC
    /\ ws = "OPEN"
    /\ status' = "connected"
    /\ UNCHANGED <<component, mediaStream, sent,
                   isActive, speakingState, isAIResponding, ws, orphans,
                   audioContext, contexts, currentTime, nextStartTime,
                   activeSourceNodes, units, timers, pendingStart, captureNode,
                   lastCancel>>
    /\ UNCHANGED captureVars
    /\ UNCHANGED codecVars
    /\ UNCHANGED pageVars

\* toggleRecording(), past the disconnected branch (the button is disabled
\* while connecting): stop the recorder and reset the schedule, or obtain
\* the playback context and start the recorder.
VcToggleRecording ==
    /\ VC
    /\ status \notin {"disconnected", "connecting"}
    /\ IF captureNode # 0
       THEN /\ captureNode' = 0
            /\ mediaStream' = FALSE
            /\ nextStartTime' = 0
            /\ status' = "connected"
            /\ UNCHANGED <<audioContext, contexts, currentTime, pendingStart>>
       ELSE /\ audioContext = 0 => contexts < MaxContexts
            /\ getAudioContext
            /\ pendingStart' = {audioContext'}
            /\ status' = "listening"
            /\ UNCHANGED <<nextStartTime, captureNode, mediaStream>>
    /\ UNCHANGED <<component, sent,
                   isActive, speakingState, isAIResponding, ws, orphans,
                   activeSourceNodes, units, timers, lastCancel>>
    /\ UNCHANGED captureVars
    /\ UNCHANGED codecVars
    /\ UNCHANGED pageVars

\* useAudioRecorder.startRecording() settles: getUserMedia resolved and
\* isRecording is set, or it rejected.  The playback context was resumed
\* before the request, so its clock has moved on by the time it settles.
VcRecorderSettled(outcome) ==
    /\ VC
    /\ pendingStart # {}
    /\ currentTime < MaxTicks * ClockStep
    /\ currentTime' = currentTime + ClockStep
    /\ pendingStart' = {}
    /\ mediaStream' = IF outcome = "denied" THEN mediaStream ELSE TRUE
    /\ captureNode' = IF outcome = "ok" THEN audioContext ELSE captureNode
    /\ UNCHANGED <<component, sent,
                   isActive, status, speakingState, isAIResponding, ws,
                   orphans, audioContext, contexts, nextStartTime, activeSourceNodes,
                   units, timers, lastCancel>>
    /\ UNCHANGED captureVars
    /\ UNCHANGED codecVars
    /\ UNCHANGED pageVars

\* The recorder's onaudioprocess hands a chunk to VoiceChat's callback, which
\* sends it when the socket exists and is OPEN.
VcRecorderData ==
    /\ VC
    /\ captureNode # 0
    /\ ws = "OPEN" => sent < MaxSent
    /\ sent' = IF ws = "OPEN" THEN sent + 1 ELSE sent
    /\ UNCHANGED <<component, mediaStream, isActive, status, speakingState,
                   isAIResponding, ws, orphans, audioContext, contexts,
                   currentTime, nextStartTime, activeSourceNodes, units, timers,
                   pendingStart, captureNode, lastCancel>>
    /\ UNCHANGED captureVars
    /\ UNCHANGED codecVars
    /\ UNCHANGED pageVars

\* ------------------------------------------------------------------ wiring
\* The capture side before any capture has been set up.
CaptureIdle ==
    /\ mode = "nearest"
    /\ sampleRate = targetSampleRate
    /\ workletNode = FALSE
    /\ starts = 0
    /\ proc = NewProcessor
    /\ port = <<>>
    /\ produced = <<>>
    /\ taken = <<>>
    /\ stream = <<>>
    /\ calls = 0
    /\ dsCall = NoCall
    /\ dsResult = NoResult

\* The playback side before anything is started.
PlaybackIdle ==
    /\ isActive = FALSE
    /\ status = "disconnected"
    /\ speakingState = "idle"
    /\ isAIResponding = FALSE
    /\ ws = "null"
    /\ orphans = 0
    /\ audioContext = 0
    /\ contexts = 0
    /\ currentTime = 0
    /\ nextStartTime = 0
    /\ activeSourceNodes = <<>>
    /\ units = <<>>
    /\ timers = 0
    /\ pendingStart = {}
    /\ captureNode = 0
    /\ lastCancel = 0
    /\ mediaStream = FALSE
    /\ sent = 0
    /\ timeLeft = SESSION_DURATION

vars == <<captureVars, playbackVars, codecVars, pageVars>>

\* The capture pipeline on its own.
Init ==
    /\ CaptureInit
    /\ component = "useVoiceClient"
    /\ PlaybackIdle
    /\ CodecIdle

Next ==
    \/ StartCapture
    \/ \E channelData \in Frames : Process(channelData)
    \/ ProcessNoInput
    \/ StopCapture
    \/ CallDownsample

Spec == Init /\ [][Next]_vars

\* The playback scheduler and the session around it.
PlaybackInit ==
    /\ component \in Components
    /\ PlaybackIdle
    /\ CaptureIdle
    /\ CodecIdle

PlaybackNext ==
    \/ HandleStart
    \/ HandleStop
    \/ WsOpen
    \/ WsClosing
    \/ WsError
    \/ WsClose
    \/ \E payload \in Payloads : WsAudio(payload)
    \/ WsTurnComplete
    \/ WsOther
    \/ \E ctx \in pendingStart, outcome \in StartOutcomes : MicSettled(ctx, outcome)
    \/ VadSignal
    \/ PortAudioData
    \/ \E k \in 1..Len(units) : SourceEnded(k)
    \/ TimerFire
    \/ Tick
    \/ VcConnect
    \/ VcWsOpen
    \/ VcWsError
    \/ VcWsClose
    \/ \E payload \in Payloads : VcAudio(payload)
    \/ VcTurnComplete
    \/ VcTimerFire
    \/ VcSessionStarted
    \/ VcToggleRecording
    \/ \E outcome \in StartOutcomes : VcRecorderSettled(outcome)
    \/ VcRecorderData

SpecPlayback == PlaybackInit /\ [][PlaybackNext]_vars

\* The VoiceChat component alone, with the scheduling the browser guarantees:
\* a running context's clock advances and an armed timeout fires.  The server
\* sends turn_complete after the audio of its turn: no audio message arrives
\* while a turn_complete timeout is pending.
VoiceChatInit ==
    /\ component = "VoiceChat"
    /\ PlaybackIdle
    /\ CaptureIdle
    /\ CodecIdle

VoiceChatNext ==
    \/ Tick
    \/ VcConnect
    \/ VcWsOpen
    \/ VcWsError
    \/ VcWsClose
    \/ \E payload \in Payloads : timers = 0 /\ VcAudio(payload)
    \/ VcTurnComplete
    \/ VcTimerFire
    \/ VcSessionStarted
    \/ VcToggleRecording
    \/ \E outcome \in StartOutcomes : VcRecorderSettled(outcome)
    \/ VcRecorderData

SpecVoiceChat ==
    /\ VoiceChatInit
    /\ [][VoiceChatNext]_vars
    /\ WF_vars(Tick)
    /\ WF_vars(VcTimerFire)

\* The worklet hook under its page, with the scheduling the browser
\* guarantees: a running context's clock advances, a finished or stopped
\* source delivers onended, and an armed timeout fires.  One 'audio' message
\* opens an episode: no further audio arrives while the flag it set is true.
HookInit ==
    /\ component = "useVoiceClient"
    /\ PlaybackIdle
    /\ CaptureIdle
    /\ CodecIdle

HookNext ==
    \/ HandleStart
    \/ HandleStop
    \/ WsOpen
    \/ WsClosing
    \/ WsError
    \/ WsClose
    \/ \E payload \in Payloads : ~isAIResponding /\ WsAudio(payload)
    \/ WsTurnComplete
    \/ \E ctx \in pendingStart, outcome \in StartOutcomes : MicSettled(ctx, outcome)
    \/ VadSignal
    \/ \E k \in 1..Len(units) : SourceEnded(k)
    \/ TimerFire
    \/ Tick

SpecHook ==
    /\ HookInit
    /\ [][HookNext]_vars
    /\ WF_vars(Tick)
    /\ WF_vars(\E k \in 1..Len(units) : SourceEnded(k))
    /\ WF_vars(TimerFire)

\* The page's session: start, stop, the session timer, and the connection
\* and microphone that a stop tears down.  The timer effect runs after every
\* render, so an expired timer does stop the session.
SessionInit ==
    /\ component = "useVoiceClient"
    /\ PlaybackIdle
    /\ CaptureIdle
    /\ CodecIdle

SessionNext ==
    \/ HandleStart
    \/ HandleStop
    \/ SessionTick
    \/ SessionExpired
    \/ WsOpen
    \/ WsClosing
    \/ WsError
    \/ WsClose
    \/ \E ctx \in pendingStart, outcome \in StartOutcomes : MicSettled(ctx, outcome)

SpecSession ==
    /\ SessionInit
    /\ [][SessionNext]_vars
    /\ WF_vars(SessionExpired)

\* The ScriptProcessor version of the hook under its page.
ScriptProcessorInit ==
    /\ component = "useVoiceClientScriptProcessor"
    /\ PlaybackIdle
    /\ CaptureIdle
    /\ CodecIdle

ScriptProcessorNext ==
    \/ HandleStart
    \/ HandleStop
    \/ WsOpen
    \/ WsClosing
    \/ WsError
    \/ WsClose
    \/ \E payload \in Payloads : WsAudio(payload)
    \/ WsTurnComplete
    \/ WsOther
    \/ \E ctx \in pendingStart, outcome \in StartOutcomes : MicSettled(ctx, outcome)
    \/ \E active \in BOOLEAN : OnAudioProcess(active)
    \/ \E k \in 1..Len(units) : SourceEnded(k)
    \/ TimerFire
    \/ Tick

SpecScriptProcessor == ScriptProcessorInit /\ [][ScriptProcessorNext]_vars

\* The conversions on their own, each applied once to a drawn argument.
CodecInit ==
    /\ codecCall \in [kind : {"sample"}, x : Int16]
                      \cup [kind : {"wire"}, samples : SampleSeqs]
    /\ codecResult = NoCodecResult
    /\ component = "useVoiceClient"
    /\ PlaybackIdle
    /\ CaptureIdle

CodecNext ==
    \/ CallSampleRoundTrip
    \/ CallWireRoundTrip

SpecCodec == CodecInit /\ [][CodecNext]_vars

\* ------------------------------------------------------- capture: properties
Worklet == mode \in Variants

\* The data of the audio_data messages among msgs, concatenated in order.
RECURSIVE ChunkSamples(_)
ChunkSamples(msgs) ==
    IF msgs = <<>> THEN <<>>
    ELSE (IF Head(msgs).type = "audio_data" THEN Head(msgs).data ELSE <<>>)
         \o ChunkSamples(Tail(msgs))

AudioChunks == SelectSeq(port, LAMBDA m : m.type = "audio_data")

\* ceil(a / b) for a >= 0, b > 0
CeilDiv(a, b) == (a + b - 1) \div b

\* C1: every audio_data chunk the worklet posts holds exactly chunkSize
\* samples, the accumulator index stays within 0 <= bufferIndex < chunkSize
\* between process() calls, and stopping capture posts nothing (so no short
\* chunk is ever emitted).
C1_ChunksAreFull ==
    /\ [](Worklet =>
            /\ \A k \in 1..Len(port) :
                  port[k].type = "audio_data" => Len(port[k].data) = chunkSize
            /\ proc.bufferIndex >= 0
            /\ proc.bufferIndex < chunkSize)
    /\ [][(workletNode /\ ~workletNode') => port' = port]_vars

C1_Witness ==
    /\ Worklet /\ ~workletNode /\ starts > 0
    /\ proc.bufferIndex > 0
    /\ Len(AudioChunks) >= 1

\* C2: the emitted chunks followed by the accumulator contents are, in order
\* and without loss or duplication, the resampled samples produced so far
\* (the chunks after the Int16 conversion); a callback that produces more
\* than the accumulator has room for carries the excess into the next chunk,
\* and N * chunkSize produced samples give exactly N chunks.
C2_NoLossNoDuplication ==
    Worklet =>
        /\ ChunkSamples(port)
             \o [i \in 1..proc.bufferIndex |-> FloatToInt16(proc.buffer[i])]
           = [i \in 1..Len(produced) |-> FloatToInt16(produced[i])]
        /\ \A i \in 1..proc.bufferIndex :
              proc.buffer[i] = produced[Len(produced) - proc.bufferIndex + i]
        /\ Len(AudioChunks) = Len(produced) \div chunkSize
        /\ proc.bufferIndex = Len(produced) % chunkSize

C2_Witness ==
    /\ Worklet /\ calls = 1
    /\ Len(produced) > chunkSize
    /\ proc.bufferIndex > 0
    /\ sampleRate >= targetSampleRate

\* C3: for the linear-interpolation worklet, a signal fed as two consecutive
\* process() calls yields exactly the output of the same signal fed in a
\* single call (every output read from the same pair of input neighbours
\* with the same weight, hence the same sample values).
C3_SplitEqualsWhole ==
    (mode = "linear" /\ calls = 2 /\ sampleRate >= targetSampleRate) =>
        LET whole == process(NewRun, stream, sampleRate, "linear", 0)
        IN  produced = whole.produced

\* C4: for any split of the input into frames and any ratio >= 1 the
\* resampler takes its outputs at the global input positions 0, ratio,
\* 2 * ratio, ...; after N input samples there are ceil(N / ratio) of them.
C4_PositionsAreMultiplesOfRatio ==
    (Worklet /\ sampleRate >= targetSampleRate) =>
        /\ Len(taken) = CeilDiv(Len(stream) * targetSampleRate, sampleRate)
        /\ \A k \in 1..Len(taken) : taken[k] = (k - 1) * sampleRate

C4_Witness ==
    /\ Worklet /\ calls >= 2
    /\ sampleRate > targetSampleRate
    /\ proc.residue # 0
    /\ Len(taken) >= 2

\* C5: with the input rate equal to the target rate the worklet (either
\* resampler) appends exactly the input samples, in order, one per input, and
\* its carry stays 0; downsampleBuffer returns its input unchanged.
C5_Identity ==
    /\ (Worklet /\ sampleRate = targetSampleRate) =>
          /\ produced = [i \in 1..Len(stream) |-> stream[i] * targetSampleRate]
          /\ proc.residue = 0
    /\ (mode = "downsample" /\ dsResult.called
          /\ dsCall.sampleRate = dsCall.outSampleRate) =>
          /\ ~dsResult.threw
          /\ dsResult.same
          /\ dsResult.value = dsCall.buffer

C5_Witness ==
    /\ Worklet /\ sampleRate = targetSampleRate
    /\ calls >= 2
    /\ Len(produced) >= 3

\* C6: downsampleBuffer called with outSampleRate > sampleRate throws and
\* returns no buffer.
C6_RejectsUpsampling ==
    (mode = "downsample" /\ dsResult.called
       /\ dsCall.outSampleRate > dsCall.sampleRate) =>
        /\ dsResult.threw
        /\ dsResult.value = <<>>

C6_Witness ==
    /\ mode = "downsample" /\ dsResult.called
    /\ dsCall.outSampleRate > dsCall.sampleRate
    /\ Len(dsCall.buffer) > 0

\* C7: asked to upsample (device rate below the 16 kHz target) the worklet
\* resampler fails and appends no samples to the accumulator.
C7_WorkletRejectsUpsampling ==
    (Worklet /\ sampleRate < targetSampleRate) =>
        /\ produced = <<>>
        /\ Len(AudioChunks) = 0

\* ------------------------------------------------------ playback: properties
\* A step that schedules a unit, and the unit it schedules.
Enqueue == Len(units') = Len(units) + 1
NewUnit == units'[Len(units')]

\* C8: an enqueue that follows another with no stopAudioPlayback between them
\* and finds nextStartTime >= now starts its unit where the previous unit
\* ends (previous start + previous duration); after every enqueue
\* nextStartTime is the start of the unit just scheduled plus its duration.
C8_GaplessScheduling ==
    /\ [][(Enqueue /\ Len(units) >= 1 /\ lastCancel = 0 /\ nextStartTime >= Now)
            => NewUnit.start = units[Len(units)].start + units[Len(units)].duration]_vars
    /\ [][Enqueue => nextStartTime' = NewUnit.start + NewUnit.duration]_vars

C8_Witness ==
    /\ Len(units) >= 2
    /\ units[2].ctx = units[1].ctx
    /\ ~units[1].stopped
    /\ units[1].duration # units[2].duration
    /\ units[2].start = units[1].start + units[1].duration
    /\ nextStartTime = units[2].start + units[2].duration

\* C9: an enqueue that finds nextStartTime < now starts its unit at
\* now + lookahead (50 ms): not at the stale time and not at exactly now.
C9_GapRecovery ==
    [][(Enqueue /\ nextStartTime < Now) => NewUnit.start = Now + lookahead]_vars

\* C10: a stopAudioPlayback leaves, at once, every unit that was scheduled or
\* playing stopped, the active list empty, nextStartTime at the current clock
\* time and the is-responding flag false; and the first enqueue after it
\* starts its unit between the then-current time and that time plus the
\* lookahead.
C10_CancelAll ==
    /\ [][(VadSignal /\ isAIResponding) =>
            /\ \A k \in 1..Len(units) :
                  (units[k].ctx = audioContext /\ ~units[k].ended
                     /\ currentTime < units[k].start + units[k].duration)
                  => units'[k].stopped
            /\ activeSourceNodes' = <<>>
            /\ nextStartTime' = currentTime'
            /\ ~isAIResponding']_vars
    /\ [][(Enqueue /\ lastCancel # 0)
            => /\ NewUnit.start >= Now
               /\ NewUnit.start <= Now + lookahead]_vars

\* Unit k is scheduled or playing: on the open context, not stopped, not yet
\* played out.
LiveUnit(k) ==
    /\ units[k].ctx = audioContext
    /\ ~units[k].stopped
    /\ currentTime < units[k].start + units[k].duration

\* C11: a vad_signal handled while some unit is scheduled or playing stops
\* every such unit (stopAudioPlayback runs) and leaves speakingState at
\* 'listening'.
C11_BargeInRouting ==
    [][(VadSignal /\ \E k \in 1..Len(units) : LiveUnit(k))
         => /\ \A k \in 1..Len(units) : LiveUnit(k) => units'[k].stopped
            /\ speakingState' = "listening"]_vars

\* C13: source.onended clears isAIResponding only when no other unit is left
\* in the active list and nextStartTime <= now.
C13_CompletionDetection ==
    [][((\E k \in 1..Len(units) : SourceEnded(k))
           /\ isAIResponding /\ ~isAIResponding')
         => /\ activeSourceNodes' = <<>>
            /\ nextStartTime <= currentTime]_vars

\* C14: a turn_complete handled while a unit is scheduled or playing does not
\* move speakingState to 'idle', and speakingState goes from 'speaking' to
\* 'idle' only when no unit is scheduled or playing.
C14_TurnCompleteDoesNotIdle ==
    /\ [][(WsTurnComplete /\ \E k \in 1..Len(units) : LiveUnit(k))
            => (speakingState' = "idle" => speakingState = "idle")]_vars
    /\ [][(speakingState = "speaking" /\ speakingState' = "idle")
            => ~(\E k \in 1..Len(units) : LiveUnit(k))']_vars

ChunkHandled == PortAudioData \/ VcRecorderData

\* C15: handling a capture chunk sends exactly one frame when the socket is
\* OPEN and otherwise changes nothing at all; no other step sends, so a chunk
\* dropped while the socket was not OPEN is never sent later.
C15_OutboundGating ==
    /\ [][ChunkHandled => IF ws = "OPEN" THEN sent' = sent + 1
                                         ELSE UNCHANGED vars]_vars
    /\ [][sent' # sent => ChunkHandled /\ ws = "OPEN"]_vars

\* A chunk has been sent, and the capture node is still delivering chunks
\* while the socket is no longer OPEN.
C15_Witness ==
    /\ sent > 0
    /\ captureNode # 0
    /\ component = "useVoiceClient" => captureNode = audioContext
    /\ ws # "OPEN"

\* A startRecording() call ends in failure.
StartFailed ==
    \E outcome \in StartOutcomes \ {"ok"} :
        \/ \E ctx \in pendingStart : MicSettled(ctx, outcome)
        \/ VcRecorderSettled(outcome)

\* C18: when a startRecording() call fails with no capture set up before it,
\* no media stream and no capture node is held afterwards and speakingState
\* does not become 'listening'.
C18_FailedStartLeavesNothing ==
    [][(StartFailed /\ ~mediaStream /\ captureNode = 0)
         => /\ ~mediaStream'
            /\ captureNode' = 0
            /\ speakingState' = speakingState]_vars

\* An inbound 'audio' message whose payload cannot be decoded is handled.
BadAudio ==
    \E payload \in Payloads :
        /\ ~payload.ok
        /\ WsAudio(payload) \/ VcAudio(payload)

\* C19: an 'audio' message with an undecodable payload leaves nextStartTime,
\* the active list and isAIResponding as they were.
C19_DecodeFailureDropped ==
    [][BadAudio => UNCHANGED <<nextStartTime, activeSourceNodes, units,
                               isAIResponding>>]_vars

\* A message of a type other than 'audio' is handled.
NonAudioMessage ==
    WsTurnComplete \/ WsOther \/ VcTurnComplete \/ VcSessionStarted

C16_VadIndependentOfTransport ==
    (/\ ScriptProcessorHook
     /\ captureNode # 0
     /\ captureNode = audioContext
     /\ isAIResponding
     /\ \E k \in 1..Len(units) : LiveUnit(k)
     /\ ws # "OPEN")
        => ENABLED (OnAudioProcess(TRUE) /\ ~isAIResponding')

\* The frame handed to a process() call and the messages the call posted.
ProcessCall == calls' = calls + 1
Frame == SubSeq(stream', Len(stream) + 1, Len(stream'))
NewPosts == SubSeq(port', Len(port) + 1, Len(port'))
VadPosts == Cardinality({i \in 1..Len(NewPosts) : NewPosts[i].type = "vad_signal"})

\* C17: a process() call with a non-empty frame posts exactly one vad_signal
\* when the frame's mean square is strictly greater than the squared threshold
\* (RMS > threshold) and none otherwise.
C17_OneVadSignalIffActive ==
    [][ProcessCall =>
          VadPosts = IF SumSquares(Frame, 1)
                          > vadThreshold(mode) * vadThreshold(mode) * Len(Frame)
                     THEN 1 ELSE 0]_vars

\* Two calls of the linear worklet: a frame whose RMS equals the threshold
\* (0.001) posted nothing, a louder frame posted one vad_signal.
C17_Witness ==
    /\ mode = "linear"
    /\ calls = 2
    /\ stream = <<vadThresholdLinear, 1000>>
    /\ Cardinality({i \in 1..Len(port) : port[i].type = "vad_signal"}) = 1

\* C21: a 16-bit sample decoded with base64ToFloat32's mapping and converted
\* back with convertFloat32ToInt16 is the sample itself.
C21_Int16RoundTrip ==
    (codecCall.kind = "sample" /\ codecResult.called)
        => codecResult.value = codecCall.x

\* Math.round of the rational num / den (den > 0): halves go up.
RoundHalfUp(num, den) == (2 * num + den) \div (2 * den)

\* round(s * 32768) for s < 0 and round(s * 32767) otherwise, after the clamp
\* of s (a numerator over One) to [-1, 1].
RoundedInt16(s) ==
    LET c == IF s < -One THEN -One ELSE IF s > One THEN One ELSE s
    IN  IF c < 0 THEN RoundHalfUp(c * 32768, One) ELSE RoundHalfUp(c * 32767, One)

\* C22: every sample of every posted chunk lies in [-32768, 32767] and is the
\* rounded scaled value of the clamped sample it was converted from.
C22_FloatToInt16Rounds ==
    \A i \in 1..Len(ChunkSamples(port)) :
        /\ ChunkSamples(port)[i] \in Int16
        /\ ChunkSamples(port)[i] = RoundedInt16(produced[i])

\* C23: a sample sequence serialised to bytes and base64 text on the send
\* path and decoded on the receive path gives back the same bytes and the
\* same samples.
C23_WireRoundTrip ==
    (codecCall.kind = "wire" /\ codecResult.called)
        => /\ codecResult.bytes = codecResult.sent
           /\ codecResult.samples = codecCall.samples
           /\ Len(codecResult.sent) = 2 * Len(codecCall.samples)
           /\ \A i \in 1..Len(codecResult.sent) : codecResult.sent[i] \in 0..255

\* Two samples with the bytes 0xFF 0xFF 0x00 0x80 went through the codec: the
\* text ends in a group of one byte with two padding characters.
C23_Witness ==
    /\ codecCall.kind = "wire"
    /\ codecResult.called
    /\ codecCall.samples = <<-1, Int16Min>>
    /\ codecResult.sent = <<255, 255, 0, 128>>
    /\ Len(codecResult.text) = 8
    /\ codecResult.text[7] = Pad

\* The frame with every sample doubled.
Doubled(frame) == [i \in 1..Len(frame) |-> 2 * frame[i]]

\* C24: for the frame A of a process() call and B = 2 * A, the sum of squares
\* of B is four times that of A (the RMS doubles), and B is classified active
\* whenever A is.
C24_VadMonotone ==
    [][ProcessCall =>
          /\ SumSquares(Frame, 1) > 0
          /\ SumSquares(Doubled(Frame), 1) = 4 * SumSquares(Frame, 1)
          /\ VadActive(Frame, mode) => VadActive(Doubled(Frame), mode)]_vars

\* A frame classified active has been processed.
C24_Witness ==
    /\ mode \in Variants
    /\ calls = 1
    /\ stream = <<1000, 1>>
    /\ \E i \in 1..Len(port) : port[i].type = "vad_signal"

OtherVariant == IF mode = "nearest" THEN "linear" ELSE "nearest"
Twin == process(CurrentRun, Frame, sampleRate, OtherVariant, Len(stream))
ChunkCount(msgs) == Cardinality({i \in 1..Len(msgs) : msgs[i].type = "audio_data"})

\* C26: for a ratio >= 1, a process() call of either variant and the same call
\* of the other variant (same residue, same buffer index, same frame) end
\* with the same residue and buffer index and have appended the same number
\* of samples and posted the same number of chunks.  Both start from the same
\* fresh processor, and none of these numbers depends on the buffer's
\* contents, so the two variants agree after every call of a run.
C26_VariantsAgreeOnCarry ==
    [][(ProcessCall /\ sampleRate >= targetSampleRate)
         => /\ Twin.p.residue = proc'.residue
            /\ Twin.p.bufferIndex = proc'.bufferIndex
            /\ Len(Twin.produced) = Len(produced')
            /\ ChunkCount(Twin.posted) = ChunkCount(port')]_vars

\* The linear variant at ratio 1.5 after two calls, with a chunk posted and a
\* carry left.
C26_Witness ==
    /\ mode = "linear"
    /\ sampleRate = 24
    /\ calls = 2
    /\ proc.residue # 0
    /\ ChunkCount(port) > 0

\* Units j and k play on the same context and neither has been stopped.
BothStarted(j, k) ==
    /\ units[j].ctx = units[k].ctx
    /\ ~units[j].stopped
    /\ ~units[k].stopped

\* C27: in the hook, the intervals [start, start + duration) of any two units
\* started on the same context and not stopped do not overlap.
C27_NoOverlap ==
    component \in Hooks =>
        \A j, k \in 1..Len(units) :
            (j < k /\ BothStarted(j, k))
                => \/ units[j].start + units[j].duration <= units[k].start
                   \/ units[k].start + units[k].duration <= units[j].start

\* Two units scheduled back to back on one context, the first still playing.
C27_Witness ==
    /\ component = "useVoiceClient"
    /\ Len(units) = 2
    /\ BothStarted(1, 2)
    /\ LiveUnit(1)
    /\ units[2].start = units[1].start + units[1].duration
    /\ currentTime > 0

\* Unit k is in the active list.
InActiveSet(k) == \E j \in 1..Len(activeSourceNodes) : activeSourceNodes[j] = k

\* C28: in the hook, as long as nothing was enqueued since the last
\* stopAudioPlayback the active list is empty and no unit is scheduled or
\* playing; and every unit on the open context that was neither stopped nor
\* has ended is in the active list, with nextStartTime at or after its end.
C28_EnqueueCancelAtomic ==
    component \in Hooks =>
        /\ lastCancel # 0 =>
               /\ activeSourceNodes = <<>>
               /\ ~\E k \in 1..Len(units) : LiveUnit(k)
        /\ \A k \in 1..Len(units) :
               (units[k].ctx = audioContext /\ ~units[k].stopped /\ ~units[k].ended)
                   => /\ InActiveSet(k)
                      /\ nextStartTime >= units[k].start + units[k].duration

\* A cancel has stopped two units that were both still scheduled or playing,
\* and the first one's onended has run since.
C28_Witness ==
    /\ component = "useVoiceClient"
    /\ lastCancel = audioContext
    /\ lastCancel # 0
    /\ Len(units) = 2
    /\ units[1].stopped /\ units[2].stopped
    /\ units[1].ended /\ ~units[2].ended
    /\ currentTime < units[2].start

\* C29: every capture start leaves the residue at 0 and the buffer empty,
\* whatever the previous processor held when it was stopped; and the samples
\* of the chunks posted since the start are the conversions of the first
\* samples produced since the start, in order.
C29_RestartIsFresh ==
    /\ [][StartCapture => /\ proc'.residue = 0
                          /\ proc'.bufferIndex = 0]_vars
    /\ [](\A i \in 1..Len(ChunkSamples(port)) :
              /\ i <= Len(produced)
              /\ ChunkSamples(port)[i] = FloatToInt16(produced[i]))

\* The second capture has posted a chunk and carries a residue.
C29_Witness ==
    /\ starts = 2
    /\ workletNode
    /\ ChunkCount(port) > 0
    /\ proc.residue # 0

\* C30: in VoiceChat, after a turn_complete message that arrives while status
\* is 'speaking', and with no further audio arriving, status eventually leaves
\* 'speaking' once the scheduled audio has finished playing, also when the
\* playback outlasts the timeout armed by turn_complete.
PlaybackOutlastsClock ==
    /\ currentTime < nextStartTime
    /\ ~ENABLED Tick
C30_StatusReturnsToConnected ==
    \A n \in 1..MaxUnits :
        (VC /\ status = "speaking" /\ timers > 0 /\ Len(units) = n)
            ~> (\/ status # "speaking"
                \/ Len(units) # n
                \/ PlaybackOutlastsClock)

\* C31: in useVoiceClient, once an inbound audio message has set the
\* is-speaking flag and no further audio arrives, the flag eventually becomes
\* false and speakingState eventually leaves 'speaking', in every state in
\* which the message is received (also with an undecodable payload).
UnitOutlastsClock ==
    /\ ~ENABLED Tick
    /\ \E k \in 1..Len(units) : LiveUnit(k)
C31_SpeakingEpisodeEnds ==
    /\ (UVC /\ isAIResponding) ~> (~isAIResponding \/ UnitOutlastsClock)
    /\ (UVC /\ isAIResponding /\ speakingState = "speaking")
          ~> (speakingState # "speaking" \/ UnitOutlastsClock)

\* C32: the 100 ms timeout armed by onended never moves speakingState to
\* 'idle' while the is-speaking flag is true (an audio message arrived in
\* between), and while connected the flag being true implies speakingState
\* = 'speaking'.
C32_TimerRespectsFlag ==
    [][(TimerFire /\ isAIResponding) => speakingState' # "idle"]_vars
C32_FlagImpliesSpeaking ==
    (UVC /\ status = "connected" /\ isAIResponding) => speakingState = "speaking"
C32_IdleTimerNeverCutsSpeech ==
    /\ C32_TimerRespectsFlag
    /\ []C32_FlagImpliesSpeaking

\* C33: after a teardown that closed the playback clock and a new session
\* with a fresh clock, the first unit enqueued on the new clock starts no
\* later than the new clock's current time plus the lookahead.
FirstOnFreshClock ==
    /\ Enqueue
    /\ NewUnit.ctx > 1
    /\ \A k \in 1..Len(units) : units[k].ctx # NewUnit.ctx
C33_FreshClockFreshSchedule ==
    [][FirstOnFreshClock => NewUnit.start <= Now + lookahead]_vars

\* A startRecording() that was waiting for the microphone resumes after the
\* session it was started for has been stopped (its context is closed).
StaleStartSettles ==
    \E ctx \in pendingStart, outcome \in StartOutcomes :
        /\ MicSettled(ctx, outcome)
        /\ ctx # audioContext

\* C34: when a stopRecording/disconnect completed while a startRecording was
\* still waiting for the device, then once that startRecording resumes no
\* media stream is held, no capture node is connected, and a capture chunk is
\* sent only by a node of the current session.
C34_StopWinsOverPendingStart ==
    /\ [][StaleStartSettles => (~mediaStream' /\ captureNode' = 0)]_vars
    /\ [][sent' # sent => captureNode = audioContext]_vars

\* C35: no unit is scheduled in the past: at every enqueue the unit's start
\* time is at least the playback clock's current time, and nextStartTime
\* after the enqueue is at least that time plus the unit's duration.
C35_NeverScheduledInThePast ==
    [][Enqueue => /\ NewUnit.start >= Now
                  /\ nextStartTime' >= Now + NewUnit.duration]_vars
C35_Witness ==
    /\ Len(units) >= 1
    /\ units[1].start >= ClockStep
    /\ nextStartTime = units[1].start + units[1].duration

\* The close event of a socket that disconnect() closed earlier is delivered
\* after wsRef has been cleared or points to a newer socket.
LateClose ==
    /\ WsClose
    /\ orphans' = orphans - 1

\* C36: in useVoiceClient status is 'connected' only while the socket wsRef
\* holds is open (or in its closing handshake), and a close event delivered
\* late from a replaced socket changes none of status, speakingState and the
\* is-speaking flag.
C36_ConnectedMeansOpen ==
    (UVC /\ status = "connected") => ws \in {"OPEN", "CLOSING"}
C36_StatusTracksCurrentSocket ==
    /\ []C36_ConnectedMeansOpen
    /\ [][LateClose => UNCHANGED <<status, speakingState, isAIResponding>>]_vars

\* The session is stopped: as handleStop leaves it.
Stopped ==
    /\ ~isActive
    /\ captureNode = 0
    /\ ~mediaStream
    /\ ws = "null"
    /\ status = "disconnected"

\* C37: timeLeft stays within 0..SESSION_DURATION; it changes only by going
\* down by 1 while the session is active, or by being reset to
\* SESSION_DURATION by a step that leaves the session stopped as handleStop
\* does; it never counts while the session is not active; and once it is 0
\* the session is stopped and timeLeft reset.
C37_SessionTimer ==
    /\ [](timeLeft \in 0..SESSION_DURATION)
    /\ [](~isActive => timeLeft = SESSION_DURATION)
    /\ [][timeLeft' # timeLeft =>
            \/ isActive /\ isActive' /\ timeLeft' = timeLeft - 1
            \/ timeLeft' = SESSION_DURATION /\ Stopped']_vars
    /\ [][timeLeft = 0 /\ isActive /\ ~isActive' =>
            timeLeft' = SESSION_DURATION /\ Stopped']_vars
    /\ (timeLeft = 0) ~> (Stopped /\ timeLeft = SESSION_DURATION)
C37_Witness ==
    /\ timeLeft = 0
    /\ isActive
    /\ captureNode # 0
    /\ mediaStream
    /\ ws = "OPEN"

\* C38: in VoiceChat, status is 'listening' only while the recorder is
\* capturing or its start is still pending (a failed start does not leave
\* 'listening' behind), and the recorder is never capturing while status is
\* 'disconnected'.
C38_ListeningOnlyWhileStarting ==
    (VC /\ status = "listening") => (captureNode # 0 \/ pendingStart # {})
C38_NotRecordingWhenDisconnected ==
    (VC /\ status = "disconnected") => captureNode = 0
C38_ListeningMeansCapturing ==
    C38_ListeningOnlyWhileStarting /\ C38_NotRecordingWhenDisconnected

\* downsampleBuffer was applied with sampleRate > outSampleRate.
Downsampled ==
    /\ mode = "downsample"
    /\ dsResult.called
    /\ dsCall.sampleRate > dsCall.outSampleRate

\* C39: downsampleBuffer with sampleRate > outSampleRate returns exactly
\* round(length * outSampleRate / sampleRate) samples; every output sample is
\* the average of a non-empty window of consecutive input samples; the first
\* window starts at index 0 and each window starts where the previous one
\* ends, inside the buffer (so the windows are disjoint, in order, and cover
\* every index below the end of the last one exactly once).
C39_DownsampleWindows ==
    Downsampled =>
        LET out == dsResult.value
            len == Len(dsCall.buffer)
            n   == Len(out)
        IN  /\ ~dsResult.threw
            /\ 2 * n * dsCall.sampleRate
                  <= 2 * len * dsCall.outSampleRate + dsCall.sampleRate
            /\ 2 * len * dsCall.outSampleRate + dsCall.sampleRate
                  < 2 * (n + 1) * dsCall.sampleRate
            /\ \A k \in 1..n :
                  /\ out[k].count > 0
                  /\ out[k].from = (IF k = 1 THEN 0
                                    ELSE out[k - 1].from + out[k - 1].count)
                  /\ out[k].from + out[k].count <= len
                  /\ out[k].accum = SumRange(dsCall.buffer, out[k].from,
                                             out[k].from + out[k].count)
C39_Witness ==
    /\ Downsampled
    /\ Len(dsResult.value) = 2
    /\ dsResult.value[1].count = 2
    /\ dsResult.value[2].count = 1
    /\ dsResult.value[2].accum = dsCall.buffer[3]

====
